---- MODULE Spec2Model ----
(***************************************************************************)
(* apiari-common: the JSONL cursor reader and writer (src/src/ipc.rs) and  *)
(* the atomic JSON state store (src/src/state.rs).                         *)
(*                                                                         *)
(* A file is a sequence of bytes.  The byte alphabet is abstracted to one  *)
(* representative per class the code distinguishes:                        *)
(*   "0".."9"  the ASCII digits (JSON text of an unsigned integer)         *)
(*   "x"   a valid UTF-8 byte that is not JSON                             *)
(*   "sp"  whitespace other than the newline                               *)
(*   "nl"  the newline                                                     *)
(*   "ff"  a byte that is not valid UTF-8                                  *)
(* The record type T of JsonlReader<T> / JsonlWriter<T> is an unsigned     *)
(* integer: serde_json writes it as its decimal digits and reads it back   *)
(* from a string made of digits only.                                      *)
(***************************************************************************)
EXTENDS Integers, Sequences, FiniteSets, TLC

\* ---------------------------------------------------------------- bounds
\* longest file content the external writer of SpecEnv produces
MaxRaw == 4
\* longest file content JsonlWriter::append produces in Spec
MaxLog == 7
\* how often the file is truncated or removed by an external process
MaxTruncations == 1
\* longest string given to shell_quote
MaxQuoteLen == 3
\* the strings given to sanitize: at most MaxPrefix characters, a run of
\* letters, at most MaxSuffix characters
MaxPrefix == 1
MaxSuffix == 2

\* ---------------------------------------------------------------- bytes
\* the bytes the external writer of SpecEnv writes, one class each
RawBytes == {"1", "x", "sp", "nl", "ff"}

\* the records the writer is given: 1 and 11
Records == {1, 11}

\* stands for a value whose Serialize implementation reports an error
Unencodable == 0 - 1

\* whether serde_json::to_string / to_string_pretty succeeds on the value
serialize_ok(v) == v # Unencodable

IsWhitespace(b) == b \in {"sp", "nl"}

\* the ASCII digits, by value
Digits == << "0", "1", "2", "3", "4", "5", "6", "7", "8", "9" >>

IsDigit(b) == \E d \in 0..9 : Digits[d + 1] = b

DigitVal(b) == CHOOSE d \in 0..9 : Digits[d + 1] = b

\* str::trim: strip leading and trailing whitespace
RECURSIVE TrimStart(_)
TrimStart(s) ==
    IF s # <<>> /\ IsWhitespace(Head(s)) THEN TrimStart(Tail(s)) ELSE s

RECURSIVE TrimEnd(_)
TrimEnd(s) ==
    IF s # <<>> /\ IsWhitespace(s[Len(s)])
    THEN TrimEnd(SubSeq(s, 1, Len(s) - 1))
    ELSE s

Trim(s) == TrimEnd(TrimStart(s))

\* serde_json::to_string of an unsigned integer: its decimal digits
RECURSIVE to_string(_)
to_string(n) ==
    IF n < 10
    THEN << Digits[n + 1] >>
    ELSE Append(to_string(n \div 10), Digits[(n % 10) + 1])

\* serde_json::from_str::<T>: Ok exactly on a non-empty string of digits
\* with no leading zero
from_str_ok(s) ==
    /\ s # <<>>
    /\ \A i \in 1..Len(s) : IsDigit(s[i])
    /\ (Len(s) > 1 => s[1] # "0")

RECURSIVE from_str(_)
from_str(s) ==
    IF Len(s) = 1
    THEN DigitVal(s[1])
    ELSE 10 * from_str(SubSeq(s, 1, Len(s) - 1)) + DigitVal(s[Len(s)])

\* the str::from_utf8 check inside BufRead::read_line
ValidUtf8(s) == \A i \in 1..Len(s) : s[i] # "ff"

\* BufRead::read_line at byte position pos (0-based): the bytes up to and
\* including the next newline, or up to end of file when there is none
RECURSIVE LineEnd(_, _)
LineEnd(c, pos) ==
    IF pos >= Len(c) THEN Len(c)
    ELSE IF c[pos + 1] = "nl" THEN pos + 1
    ELSE LineEnd(c, pos + 1)

read_line(c, pos) == SubSeq(c, pos + 1, LineEnd(c, pos))

\* the read loop of JsonlReader::poll, started at offset pos with the records
\* collected so far; a read_line error leaves through `?` and drops the records
RECURSIVE PollLoop(_, _, _)
PollLoop(c, pos, recs) ==
    LET line == read_line(c, pos)
        trimmed == Trim(line)
    IN  IF ~ValidUtf8(line)
        THEN [offset |-> pos, records |-> <<>>, err |-> TRUE]
        ELSE IF Len(line) = 0
        THEN [offset |-> pos, records |-> recs, err |-> FALSE]
        ELSE IF trimmed = <<>>
        THEN PollLoop(c, pos + Len(line), recs)
        ELSE IF from_str_ok(trimmed)
        THEN PollLoop(c, pos + Len(line), Append(recs, from_str(trimmed)))
        ELSE PollLoop(c, pos + Len(line), recs)

\* poll without the seek to the stored offset: every poll reads from byte 0
poll_no_seek(exists, c, off) ==
    IF ~exists
    THEN [offset |-> off, records |-> <<>>, err |-> FALSE]
    ELSE IF Len(c) <= off
    THEN [offset |-> off, records |-> <<>>, err |-> FALSE]
    ELSE PollLoop(c, 0, <<>>)

\* poll that takes a file shorter than the offset for a new file and rewinds
poll_rewind(exists, c, off) ==
    IF ~exists
    THEN [offset |-> off, records |-> <<>>, err |-> FALSE]
    ELSE IF Len(c) < off
    THEN PollLoop(c, 0, <<>>)
    ELSE IF Len(c) = off
    THEN [offset |-> off, records |-> <<>>, err |-> FALSE]
    ELSE PollLoop(c, off, <<>>)

\* JsonlReader::poll as a function of the file and the stored offset
poll(exists, c, off) ==
    IF ~exists
    THEN [offset |-> off, records |-> <<>>, err |-> FALSE]
    ELSE IF Len(c) <= off
    THEN [offset |-> off, records |-> <<>>, err |-> FALSE]
    ELSE PollLoop(c, off, <<>>)

\* skip_to_end that counts the bytes before the last line only
skip_to_last_line(exists, c) ==
    IF exists /\ c # <<>>
    THEN LET body == SubSeq(c, 1, Len(c) - 1)
         IN  IF \E i \in 1..Len(body) : body[i] = "nl"
             THEN CHOOSE i \in 1..Len(body) :
                     body[i] = "nl" /\ \A j \in (i + 1)..Len(body) : body[j] # "nl"
             ELSE 0
    ELSE 0

\* JsonlReader::skip_to_end: the offset it stores and returns
skip_to_end(exists, c) == IF exists THEN Len(c) ELSE 0

\* with_offset that drops its argument, as JsonlReader::new does
with_offset_ignored(o) == 0

\* JsonlReader::with_offset: the offset of the reader it builds
with_offset(o) == o

\* ---------------------------------------------------------------- state
VARIABLES
    fileExists,   \* the record file: does the path exist
    content,      \* the record file: its bytes (<<>> while it does not exist)
    offset,       \* JsonlReader.offset of reader R
    positioned,   \* how R's cursor was last positioned: "new" or "skip"
    rbase,        \* history: records in the file when R's cursor was positioned
    returned,     \* history: records R's polls returned since it was positioned
    appended,     \* history: records given to JsonlWriter::append, in order
    last,         \* the last call on the record file and what it returned
    truncations,  \* how often the file was truncated or removed so far
    r2,           \* a second reader, built by with_offset from R's offset()
    dirExists,    \* the state file's parent directory exists
    dir,          \* the state directory: file name -> inode (0: no such file)
    inode,        \* inode -> bytes
    sv,           \* the save_state calls: saver -> position and locals
    loaded,       \* the last load_state call: what it returned
    shIn,         \* the string given to shell_quote / sanitize
    shOut         \* the last call on that string and its result

ipcVars == << fileExists, content, offset, positioned, rbase, returned,
              appended, last, truncations, r2 >>

stateVars == << dirExists, dir, inode, sv >>

auxVars == << loaded, shIn, shOut >>

vars == << fileExists, content, offset, positioned, rbase, returned,
           appended, last, truncations, r2, dirExists, dir, inode, sv,
           loaded, shIn, shOut >>

Drop(s, n) == SubSeq(s, n + 1, Len(s))

IsPrefix(a, b) == Len(a) <= Len(b) /\ SubSeq(b, 1, Len(a)) = a

NoReader == [active |-> FALSE, offset |-> 0, base |-> 0, returned |-> <<>>]

Call(op, recs, err, ret) ==
    [op |-> op, records |-> recs, err |-> err, ret |-> ret]

\* ---------------------------------------------------------------- record file
\* JsonlReader::new and a path nothing has been written to yet
InitIpc ==
    /\ fileExists = FALSE
    /\ content = <<>>
    /\ offset = 0
    /\ positioned = "new"
    /\ rbase = 0
    /\ returned = <<>>
    /\ appended = <<>>
    /\ last = Call("new", <<>>, FALSE, 0)
    /\ truncations = 0
    /\ r2 = NoReader

\* an append that opens the file in create+truncate mode
JsonlAppendTruncating(record) ==
    /\ fileExists' = TRUE
    /\ IF serialize_ok(record)
       THEN /\ Len(content) + Len(to_string(record)) + 1 <= MaxLog
            /\ content' = to_string(record) \o << "nl" >>
            /\ appended' = Append(appended, record)
            /\ last' = Call("append", <<>>, FALSE, 0)
       ELSE /\ content' = <<>>
            /\ appended' = appended
            /\ last' = Call("append", <<>>, TRUE, 0)
    /\ UNCHANGED << offset, positioned, rbase, returned, truncations, r2 >>
    /\ UNCHANGED << stateVars, auxVars >>

\* JsonlWriter::append(record): open in create+append mode (ipc.rs:150-153),
\* then encode (155-156), then write the JSON text and one newline (157); an
\* encode error returns after the file has been opened
JsonlAppend(record) ==
    /\ fileExists' = TRUE
    /\ IF serialize_ok(record)
       THEN /\ Len(content) + Len(to_string(record)) + 1 <= MaxLog
            /\ content' = content \o to_string(record) \o << "nl" >>
            /\ appended' = Append(appended, record)
            /\ last' = Call("append", <<>>, FALSE, 0)
       ELSE /\ content' = content
            /\ appended' = appended
            /\ last' = Call("append", <<>>, TRUE, 0)
    /\ UNCHANGED << offset, positioned, rbase, returned, truncations, r2 >>
    /\ UNCHANGED << stateVars, auxVars >>

\* another process appends one byte to the file (the raw writes of
\* test_malformed_lines_skipped, a byte at a time)
WriteRaw(b) ==
    /\ Len(content) < MaxRaw
    /\ fileExists' = TRUE
    /\ content' = Append(content, b)
    /\ last' = Call("write", <<>>, FALSE, 0)
    /\ UNCHANGED << offset, positioned, rbase, returned, appended,
                    truncations, r2 >>
    /\ UNCHANGED << stateVars, auxVars >>

\* another process cuts the file down to n bytes
Truncate(n) ==
    /\ fileExists
    /\ n < Len(content)
    /\ truncations < MaxTruncations
    /\ content' = SubSeq(content, 1, n)
    /\ truncations' = truncations + 1
    /\ last' = Call("truncate", <<>>, FALSE, 0)
    /\ UNCHANGED << fileExists, offset, positioned, rbase, returned,
                    appended, r2 >>
    /\ UNCHANGED << stateVars, auxVars >>

\* fs::remove_file on the record file
RemoveFile ==
    /\ fileExists
    /\ truncations < MaxTruncations
    /\ fileExists' = FALSE
    /\ content' = <<>>
    /\ truncations' = truncations + 1
    /\ last' = Call("remove", <<>>, FALSE, 0)
    /\ UNCHANGED << offset, positioned, rbase, returned, appended, r2 >>
    /\ UNCHANGED << stateVars, auxVars >>

\* JsonlReader::poll on reader R
Poll ==
    LET res == poll(fileExists, content, offset)
    IN  /\ offset' = res.offset
        /\ returned' = returned \o res.records
        /\ last' = Call("poll", res.records, res.err, 0)
        /\ UNCHANGED << fileExists, content, positioned, rbase, appended,
                        truncations, r2 >>
        /\ UNCHANGED << stateVars, auxVars >>

\* JsonlReader::skip_to_end on reader R
SkipToEnd ==
    /\ offset' = skip_to_end(fileExists, content)
    /\ positioned' = "skip"
    /\ rbase' = Len(appended)
    /\ returned' = <<>>
    /\ last' = Call("skip", <<>>, FALSE, offset')
    /\ UNCHANGED << fileExists, content, appended, truncations, r2 >>
    /\ UNCHANGED << stateVars, auxVars >>

\* JsonlReader::with_offset(path, R.offset()): a new reader R2
WithOffset ==
    /\ r2' = [active |-> TRUE, offset |-> with_offset(offset),
              base |-> rbase + Len(returned), returned |-> <<>>]
    /\ last' = Call("with_offset", <<>>, FALSE, 0)
    /\ UNCHANGED << fileExists, content, offset, positioned, rbase, returned,
                    appended, truncations >>
    /\ UNCHANGED << stateVars, auxVars >>

\* JsonlReader::poll on reader R2
Poll2 ==
    LET res == poll(fileExists, content, r2.offset)
    IN  /\ r2.active
        /\ r2' = [r2 EXCEPT !.offset = res.offset,
                            !.returned = r2.returned \o res.records]
        /\ last' = Call("poll2", res.records, res.err, 0)
        /\ UNCHANGED << fileExists, content, offset, positioned, rbase,
                        returned, appended, truncations >>
        /\ UNCHANGED << stateVars, auxVars >>

\* ---------------------------------------------------------------- state file
\* a path is the sequence of the dot-separated parts of its file name
TargetPaths == { << "state", "json" >> }

\* the values given to save_state
StateValues == {12, 21}

Savers == {1, 2}

\* Path::with_extension(ext): replace what follows the last dot, or add ext
\* to a name that has no dot
with_extension(path, ext) ==
    IF Len(path) > 1
    THEN SubSeq(path, 1, Len(path) - 1) \o ext
    ELSE path \o ext

\* save_state writing the target in place, without a temp file
tmp_path_in_place(path) == path

\* state.rs:51, the sibling temp file of a target
tmp_path(path) == with_extension(path, << "json", "tmp" >>)

\* other targets in the same directory: the same stem with another extension
\* and with no extension
SiblingPaths == { << "state", "toml" >>, << "state" >> }

Names ==
    LET targets == TargetPaths \cup SiblingPaths
    IN  targets \cup { tmp_path(p) : p \in targets }

Inodes == 1..(Cardinality(Names) + Cardinality(Savers))

\* serde_json::to_string_pretty of an unsigned integer: its decimal digits
to_string_pretty(v) == to_string(v)

\* what a reader of the file `name` sees
View(d, ino, name) ==
    IF d[name] = 0
    THEN [present |-> FALSE, bytes |-> <<>>]
    ELSE [present |-> TRUE, bytes |-> ino[d[name]]]

Complete(v) == [present |-> TRUE, bytes |-> to_string_pretty(v)]

\* write(2) of one byte at file position pos: overwrite, extend, or leave a
\* hole of zero bytes when the file has been cut below pos meanwhile
WriteAt(c, pos, b) ==
    IF pos < Len(c)
    THEN [c EXCEPT ![pos + 1] = b]
    ELSE c \o [i \in 1..(pos - Len(c)) |-> "nul"] \o << b >>

\* inodes no name and no open file refers to are freed
Referenced(d, s) ==
    ({ d[n] : n \in Names } \cup { s[x].fd : x \in Savers }) \ {0}

Collect(ino, d, s) ==
    [i \in Inodes |-> IF i \in Referenced(d, s) THEN ino[i] ELSE <<>>]

FreeInode(d, s) ==
    CHOOSE i \in Inodes :
        /\ i \notin Referenced(d, s)
        /\ \A j \in Inodes : j \notin Referenced(d, s) => i <= j

Resting == {"idle", "done", "failed", "crashed"}

\* whether a step of saver s that is no successful rename changes what a
\* reader of the saver's target path sees
Touches(s, d, ino) ==
    sv[s].hit \/ View(d, ino, sv[s].path) # View(dir, inode, sv[s].path)

InitState ==
    /\ dirExists = FALSE
    /\ dir = [n \in Names |-> 0]
    /\ inode = [i \in Inodes |-> <<>>]
    /\ sv = [s \in Savers |->
                [pc |-> "idle", path |-> << "state", "json" >>, value |-> 12,
                 data |-> <<>>, fd |-> 0, pos |-> 0, hit |-> FALSE,
                 pre |-> [present |-> FALSE, bytes |-> <<>>],
                 preTmp |-> [present |-> FALSE, bytes |-> <<>>]]]

\* a call save_state(path, &value) begins
SaveBegin(s, path, value) ==
    /\ sv[s].pc \in Resting
    /\ sv' = [sv EXCEPT ![s] =
                [pc |-> "mkdir", path |-> path, value |-> value,
                 data |-> <<>>, fd |-> 0, pos |-> 0, hit |-> FALSE,
                 pre |-> View(dir, inode, path),
                 preTmp |-> View(dir, inode, tmp_path(path))]]
    /\ UNCHANGED << dirExists, dir, inode >>
    /\ UNCHANGED << ipcVars, auxVars >>

\* state.rs:44-46  fs::create_dir_all(parent)
SaveCreateDir(s) ==
    /\ sv[s].pc = "mkdir"
    /\ dirExists' = TRUE
    /\ sv' = [sv EXCEPT ![s].pc = "serialize"]
    /\ UNCHANGED << dir, inode >>
    /\ UNCHANGED << ipcVars, auxVars >>

\* state.rs:48  serde_json::to_string_pretty(state), `?` on its error
SaveSerialize(s) ==
    /\ sv[s].pc = "serialize"
    /\ IF serialize_ok(sv[s].value)
       THEN sv' = [sv EXCEPT ![s].pc = "open",
                             ![s].data = to_string_pretty(sv[s].value)]
       ELSE sv' = [sv EXCEPT ![s].pc = "failed"]
    /\ UNCHANGED << dirExists, dir, inode >>
    /\ UNCHANGED << ipcVars, auxVars >>

\* state.rs:51-52  fs::write opens the temp file with create + truncate
SaveOpenTmp(s) ==
    LET tmp == tmp_path(sv[s].path)
        i == IF dir[tmp] = 0 THEN FreeInode(dir, sv) ELSE dir[tmp]
    IN  /\ sv[s].pc = "open"
        /\ dirExists
        /\ dir' = [dir EXCEPT ![tmp] = i]
        /\ inode' = [inode EXCEPT ![i] = <<>>]
        /\ sv' = [sv EXCEPT ![s].pc = "write", ![s].fd = i, ![s].pos = 0,
                            ![s].hit = Touches(s, dir', inode')]
        /\ UNCHANGED dirExists
        /\ UNCHANGED << ipcVars, auxVars >>

\* state.rs:52  fs::write's write_all, a byte at a time; the file is closed
\* after the last byte
SaveWriteTmp(s) ==
    LET me == sv[s]
        done == me.pos + 1 = Len(me.data)
        ino1 == [inode EXCEPT ![me.fd] =
                    WriteAt(inode[me.fd], me.pos, me.data[me.pos + 1])]
        sv1 == [sv EXCEPT ![s].pos = me.pos + 1,
                          ![s].pc = IF done THEN "rename" ELSE "write",
                          ![s].fd = IF done THEN 0 ELSE me.fd,
                          ![s].hit = Touches(s, dir, ino1)]
    IN  /\ me.pc = "write"
        /\ sv' = sv1
        /\ inode' = Collect(ino1, dir, sv1)
        /\ UNCHANGED << dirExists, dir >>
        /\ UNCHANGED << ipcVars, auxVars >>

\* a rename that links the target to the temp file's content and leaves the
\* temp file's name in the directory
SaveRenameCopy(s) ==
    LET me == sv[s]
        tmp == tmp_path(me.path)
        dir1 == [dir EXCEPT ![me.path] = dir[tmp]]
    IN  /\ me.pc = "rename"
        /\ IF dir[tmp] = 0
           THEN /\ sv' = [sv EXCEPT ![s].pc = "failed"]
                /\ UNCHANGED << dir, inode >>
           ELSE /\ sv' = [sv EXCEPT ![s].pc = "done"]
                /\ dir' = dir1
                /\ inode' = Collect(inode, dir1, sv')
        /\ UNCHANGED dirExists
        /\ UNCHANGED << ipcVars, auxVars >>

\* state.rs:53  fs::rename(tmp_path, path): fails when the temp file is gone
SaveRename(s) ==
    LET me == sv[s]
        tmp == tmp_path(me.path)
        dir1 == [dir EXCEPT ![me.path] = dir[tmp], ![tmp] = 0]
    IN  /\ me.pc = "rename"
        /\ IF dir[tmp] = 0
           THEN /\ sv' = [sv EXCEPT ![s].pc = "failed"]
                /\ UNCHANGED << dir, inode >>
           ELSE /\ sv' = [sv EXCEPT ![s].pc = "done"]
                /\ dir' = dir1
                /\ inode' = Collect(inode, dir1, sv')
        /\ UNCHANGED dirExists
        /\ UNCHANGED << ipcVars, auxVars >>

\* the process running save_state dies; its open file is closed
SaveCrash(s) ==
    LET sv1 == [sv EXCEPT ![s].pc = "crashed", ![s].fd = 0]
    IN  /\ sv[s].pc \notin Resting
        /\ sv' = sv1
        /\ inode' = Collect(inode, dir, sv1)
        /\ UNCHANGED << dirExists, dir >>
        /\ UNCHANGED << ipcVars, auxVars >>

\* what an external process writes to a state file: text that is no JSON, an
\* empty file, a number followed by garbage, bytes that are no UTF-8, and a
\* number after a blank
ForeignContents ==
    { << "x" >>, <<>>, << "1", "x" >>, << "ff" >>, << "sp", "1" >> }

\* std::fs::write(path, text) by an external process
WriteForeign(path, c) ==
    LET i == IF dir[path] = 0 THEN FreeInode(dir, sv) ELSE dir[path]
    IN  /\ dirExists
        /\ dir' = [dir EXCEPT ![path] = i]
        /\ inode' = [inode EXCEPT ![i] = c]
        /\ UNCHANGED << dirExists, sv >>
        /\ UNCHANGED << ipcVars, auxVars >>

\* T::default() of an unsigned integer
Default == 0

\* load_state answering a present file it cannot decode with the default
load_state_lenient(view) ==
    IF ~view.present
    THEN [ok |-> TRUE, value |-> Default]
    ELSE IF ValidUtf8(view.bytes) /\ from_str_ok(Trim(view.bytes))
    THEN [ok |-> TRUE, value |-> from_str(Trim(view.bytes))]
    ELSE [ok |-> TRUE, value |-> Default]

\* state.rs:21-29  load_state: read_to_string fails with NotFound on an
\* absent file and with InvalidData on bytes that are no UTF-8; serde_json
\* accepts whitespace around the value
load_state(view) ==
    IF ~view.present
    THEN [ok |-> TRUE, value |-> Default]
    ELSE IF ValidUtf8(view.bytes) /\ from_str_ok(Trim(view.bytes))
    THEN [ok |-> TRUE, value |-> from_str(Trim(view.bytes))]
    ELSE [ok |-> FALSE, value |-> Default]

\* a call load_state(path); `seen` is the file as the call found it
Load(path) ==
    LET seen == View(dir, inode, path)
        res == load_state(seen)
    IN  /\ loaded' = [op |-> "load", ok |-> res.ok, value |-> res.value,
                      seen |-> seen]
        /\ UNCHANGED << ipcVars, stateVars, shIn, shOut >>

\* ---------------------------------------------------------------- shell text
\* the characters given to shell_quote: a letter, the single quote, the
\* backslash, a blank, and a character the shell expands outside quotes
QuoteChars == {"a", "'", "\\", "sp", "$"}

\* str::replace('\'', "'\\''") 
RECURSIVE replace_quotes(_)
replace_quotes(s) ==
    IF s = <<>> THEN <<>>
    ELSE (IF Head(s) = "'" THEN << "'", "\\", "'", "'" >> ELSE << Head(s) >>)
         \o replace_quotes(Tail(s))

\* shell_quote that wraps the string without escaping the quotes inside it
shell_quote_unescaped(s) == << "'" >> \o s \o << "'" >>

\* shell.rs:17-19  format!("'{}'", s.replace('\'', "'\\''"))
shell_quote(s) == << "'" >> \o replace_quotes(s) \o << "'" >>

\* the characters given to sanitize, one per class: ASCII upper- and
\* lower-case letter, ASCII digit, hyphen, ASCII punctuation, and a
\* lower- and an upper-case letter outside ASCII
SanitizeChars == {"A", "a", "1", "-", "!", "eacute", "Eacute"}

\* char::to_lowercase, per class
to_lowercase(c) == IF c = "A" THEN "a" ELSE IF c = "Eacute" THEN "eacute" ELSE c

\* char::is_alphanumeric: Unicode letters and numbers
is_alphanumeric(c) == c \in {"A", "a", "1", "eacute", "Eacute"}

\* shell.rs:44  take(40)
TakeLimit == 40

\* str::trim_matches('-')
RECURSIVE trim_start_hyphens(_)
trim_start_hyphens(s) ==
    IF s # <<>> /\ Head(s) = "-" THEN trim_start_hyphens(Tail(s)) ELSE s

RECURSIVE trim_end_hyphens(_)
trim_end_hyphens(s) ==
    IF s # <<>> /\ s[Len(s)] = "-"
    THEN trim_end_hyphens(SubSeq(s, 1, Len(s) - 1))
    ELSE s

trim_matches(s) == trim_end_hyphens(trim_start_hyphens(s))

\* shell.rs:37-40  lowercase, then a hyphen for what is not alphanumeric
map_chars(s) ==
    [i \in 1..Len(s) |->
        IF is_alphanumeric(to_lowercase(s[i])) THEN to_lowercase(s[i]) ELSE "-"]

take(s, n) == SubSeq(s, 1, IF Len(s) < n THEN Len(s) ELSE n)

\* sanitize without the to_lowercase call
sanitize_keeps_case(s) ==
    take(trim_matches([i \in 1..Len(s) |->
            IF is_alphanumeric(s[i]) THEN s[i] ELSE "-"]), TakeLimit)

\* shell.rs:36-46
sanitize(s) == take(trim_matches(map_chars(s)), TakeLimit)

SeqsUpTo(S, n) == UNION { [1..k -> S] : k \in 0..n }

QuoteInputs == SeqsUpTo(QuoteChars, MaxQuoteLen)

\* short strings, and strings around the 40-character cut
SanitizeInputs ==
    { pre \o [i \in 1..k |-> "a"] \o suf :
        pre \in SeqsUpTo(SanitizeChars, MaxPrefix),
        k \in {0, TakeLimit - 2, TakeLimit - 1, TakeLimit},
        suf \in SeqsUpTo(SanitizeChars, MaxSuffix) }

NoCall == [op |-> "none", out |-> <<>>]

\* shell_quote(shIn)
ShellQuote ==
    /\ shOut' = [op |-> "quote", out |-> shell_quote(shIn)]
    /\ UNCHANGED << ipcVars, stateVars, loaded, shIn >>

\* sanitize(shIn)
Sanitize ==
    /\ shOut' = [op |-> "sanitize", out |-> sanitize(shIn)]
    /\ UNCHANGED << ipcVars, stateVars, loaded, shIn >>

\* sanitize applied to its own result
Resanitize ==
    /\ shOut.op = "sanitize"
    /\ shIn' = shOut.out
    /\ shOut' = [op |-> "resanitize", out |-> sanitize(shOut.out)]
    /\ UNCHANGED << ipcVars, stateVars, loaded >>


\* ---------------------------------------------------------------- specifications
NoLoad ==
    [op |-> "none", ok |-> TRUE, value |-> 0,
     seen |-> [present |-> FALSE, bytes |-> <<>>]]

InitAux ==
    /\ loaded = NoLoad
    /\ shIn = <<>>
    /\ shOut = NoCall

Init == InitIpc /\ InitState /\ InitAux

\* the record file written by JsonlWriter only
Next ==
    \/ \E record \in Records : JsonlAppend(record)
    \/ Poll
    \/ SkipToEnd
    \/ WithOffset
    \/ Poll2

Spec == Init /\ [][Next]_vars

\* the record file written, cut and removed by other processes
NextEnv ==
    \/ \E b \in RawBytes : WriteRaw(b)
    \/ \E n \in 0..MaxRaw : Truncate(n)
    \/ RemoveFile
    \/ Poll
    \/ SkipToEnd

SpecEnv == Init /\ [][NextEnv]_vars

\* a growing record file and a reader that keeps polling
NextTail ==
    \/ \E b \in RawBytes : WriteRaw(b)
    \/ Poll

SpecTail == Init /\ [][NextTail]_vars /\ WF_vars(Poll)

\* save_state called by one process at a time
NextSave1 ==
    \/ \E path \in TargetPaths, value \in StateValues : SaveBegin(1, path, value)
    \/ SaveCreateDir(1)
    \/ SaveSerialize(1)
    \/ SaveOpenTmp(1)
    \/ SaveWriteTmp(1)
    \/ SaveRename(1)
    \/ SaveCrash(1)

SpecSave1 == Init /\ [][NextSave1]_vars

\* save_state called by two processes at once, both running to completion
NextSave ==
    \E s \in Savers :
        \/ \E path \in TargetPaths, value \in StateValues : SaveBegin(s, path, value)
        \/ SaveCreateDir(s)
        \/ SaveSerialize(s)
        \/ SaveOpenTmp(s)
        \/ SaveWriteTmp(s)
        \/ SaveRename(s)

SpecSave == Init /\ [][NextSave]_vars

\* the writer, given values it can and cannot encode, and another process
\* writing bytes to the same file
NextAppend ==
    \/ \E record \in Records \cup {Unencodable} : JsonlAppend(record)
    \/ \E b \in RawBytes : WriteRaw(b)

SpecAppend == Init /\ [][NextAppend]_vars

\* the writer and one saver, given values they can and cannot encode
NextEncode ==
    \/ \E record \in Records \cup {Unencodable} : JsonlAppend(record)
    \/ \E path \in TargetPaths, value \in StateValues \cup {Unencodable} :
            SaveBegin(1, path, value)
    \/ SaveCreateDir(1)
    \/ SaveSerialize(1)
    \/ SaveOpenTmp(1)
    \/ SaveWriteTmp(1)
    \/ SaveRename(1)

SpecEncode == Init /\ [][NextEncode]_vars

\* two savers, one call each, running concurrently on different targets of
\* one directory
NextSiblings ==
    \/ \E path \in TargetPaths, value \in StateValues :
            sv[1].pc = "idle" /\ SaveBegin(1, path, value)
    \/ \E path \in SiblingPaths, value \in StateValues :
            sv[2].pc = "idle" /\ SaveBegin(2, path, value)
    \/ \E s \in Savers :
        \/ SaveCreateDir(s)
        \/ SaveSerialize(s)
        \/ SaveOpenTmp(s)
        \/ SaveWriteTmp(s)
        \/ SaveRename(s)

SpecSiblings == Init /\ [][NextSiblings]_vars

\* one saver, an external process that writes the state file, and load_state
NextLoad ==
    \/ \E path \in TargetPaths, value \in StateValues : SaveBegin(1, path, value)
    \/ SaveCreateDir(1)
    \/ SaveSerialize(1)
    \/ SaveOpenTmp(1)
    \/ SaveWriteTmp(1)
    \/ SaveRename(1)
    \/ \E path \in TargetPaths, c \in ForeignContents : WriteForeign(path, c)
    \/ \E path \in TargetPaths : Load(path)

SpecLoad == Init /\ [][NextLoad]_vars

\* shell_quote on every short string
InitQuote ==
    /\ InitIpc
    /\ InitState
    /\ loaded = NoLoad
    /\ shIn \in QuoteInputs
    /\ shOut = NoCall

NextQuote == ShellQuote

SpecQuote == InitQuote /\ [][NextQuote]_vars

\* sanitize on short strings and on strings around the cut
InitSanitize ==
    /\ InitIpc
    /\ InitState
    /\ loaded = NoLoad
    /\ shIn \in SanitizeInputs
    /\ shOut = NoCall

NextSanitize ==
    \/ Sanitize
    \/ Resanitize

SpecSanitize == InitSanitize /\ [][NextSanitize]_vars

\* ---------------------------------------------------------------- properties
Max(a, b) == IF a >= b THEN a ELSE b

\* o is 0 or the position just after a newline of c
IsBoundary(c, o) == o = 0 \/ (o <= Len(c) /\ c[o] = "nl")

\* the position just after the last newline of c, 0 when there is none
LastBoundary(c) ==
    IF \E i \in 1..Len(c) : c[i] = "nl"
    THEN CHOOSE i \in 1..Len(c) :
            c[i] = "nl" /\ \A j \in (i + 1)..Len(c) : c[j] # "nl"
    ELSE 0

\* the file ends, after the reader's offset, in bytes no newline terminates
HasPartialTail ==
    fileExists /\ Len(content) > offset /\ content[Len(content)] # "nl"

\* C1: poll never consumes an unterminated final line: when the bytes after
\* the offset end in a segment without a newline, poll leaves the offset at or
\* before the start of that segment.
C1_PartialLineDeferred ==
    [][(Poll /\ HasPartialTail)
        => offset' <= Max(offset, LastBoundary(content))]_vars

\* C2: for a reader created at offset 0, with appends and polls only, what the
\* polls returned so far is a prefix of the appended records in append order
\* (nothing twice, nothing left out), and right after a poll it is all of them.
C2_PollsNonOverlappingComplete ==
    positioned = "new" =>
        /\ IsPrefix(returned, appended)
        /\ (last.op = "poll" => returned = appended)

\* C2 witness: a poll returned one new record after earlier polls returned two
C2_Witness ==
    /\ positioned = "new"
    /\ last.op = "poll"
    /\ Len(last.records) = 1
    /\ Len(returned) = 3
    /\ returned[1] # returned[2]

\* C3: for a reader started at offset 0 that is only polled while bytes are
\* appended to the file, the offset never decreases and after every poll it is
\* a line boundary of the file (0 or just after a newline).
C3_OffsetAtLineBoundary ==
    [][(positioned' = "new" /\ truncations' = 0)
        => /\ offset' >= offset
           /\ (last'.op = "poll" => IsBoundary(content', offset'))]_vars

\* the starts of the lines one poll from position pos reads without error
RECURSIVE ReadStarts(_, _)
ReadStarts(c, pos) ==
    IF pos >= Len(c) \/ ~ValidUtf8(read_line(c, pos))
    THEN {}
    ELSE {pos} \cup ReadStarts(c, LineEnd(c, pos))

IsCompleteLine(line) == line # <<>> /\ line[Len(line)] = "nl"

\* a newline-terminated line that is not blank and does not decode
MalformedLineAt(c, p) ==
    LET line == read_line(c, p)
    IN  /\ IsCompleteLine(line)
        /\ ValidUtf8(line)
        /\ Trim(line) # <<>>
        /\ ~from_str_ok(Trim(line))

\* a newline-terminated line that holds a record
RecordLineAt(c, p) ==
    LET line == read_line(c, p)
    IN  /\ IsCompleteLine(line)
        /\ ValidUtf8(line)
        /\ from_str_ok(Trim(line))

\* the records of the newline-terminated lines from pos on, in file order
RECURSIVE CompleteRecords(_, _)
CompleteRecords(c, pos) ==
    IF pos >= Len(c) \/ ~IsCompleteLine(read_line(c, pos))
    THEN <<>>
    ELSE (IF RecordLineAt(c, pos)
          THEN << from_str(Trim(read_line(c, pos))) >>
          ELSE <<>>) \o CompleteRecords(c, LineEnd(c, pos))

\* C4: a poll that reads a complete, non-blank line that does not decode
\* raises no error, moves the offset past that line, and returns the records
\* of all the complete lines before and after it, in file order; no later
\* poll moves the offset back.
C4_MalformedLineSkipped ==
    [][(Poll /\ fileExists /\ Len(content) > offset)
        => /\ offset' >= offset
           /\ \A p \in ReadStarts(content, offset) :
                MalformedLineAt(content, p)
                    => /\ ~last'.err
                       /\ offset' >= LineEnd(content, p)
                       /\ IsPrefix(CompleteRecords(content, offset),
                                   last'.records)]_vars

\* C5: one corrupt line never wedges the stream: a record in a complete line
\* at or after the offset is eventually passed by the reader, as long as poll
\* keeps being called.
C5_NoWedge ==
    \A p \in 0..MaxRaw :
        [](  (IsBoundary(content, p) /\ RecordLineAt(content, p) /\ offset <= p)
          => <>(offset > p))

\* C6: when the path does not exist or the file is not longer than the offset,
\* poll returns an empty sequence, no error, and leaves the offset as it was.
C6_NothingNewLeavesOffset ==
    [][(Poll /\ (~fileExists \/ Len(content) <= offset))
        => /\ offset' = offset
           /\ last'.records = <<>>
           /\ ~last'.err]_vars

\* C6 witness: polled after the file was cut below the offset
C6_Witness ==
    /\ last.op = "poll"
    /\ truncations = 1
    /\ fileExists
    /\ content # <<>>
    /\ Len(content) < offset
    /\ last.records = <<>>

\* C7: skip_to_end sets and returns the file's length, or 0 when the file does
\* not exist, without error; the polls after it return none of the records
\* that were in the file then and exactly those appended since, in order.
C7_SkipToEnd ==
    /\ last.op = "skip"
        => /\ offset = (IF fileExists THEN Len(content) ELSE 0)
           /\ last.ret = offset
           /\ ~last.err
    /\ positioned = "skip"
        => /\ IsPrefix(returned, Drop(appended, rbase))
           /\ (last.op = "poll" => returned = Drop(appended, rbase))

\* C7 witness: records were skipped, and a poll returned the ones appended
\* after the skip
C7_Witness ==
    /\ positioned = "skip"
    /\ rbase >= 1
    /\ last.op = "poll"
    /\ Len(returned) >= 2
    /\ offset = Len(content)

\* C8: a reader built by with_offset from R's offset() returns exactly the
\* records R had not yet returned, once each and in order, and stands where R
\* stands whenever both have read as far.
C8_OffsetResumable ==
    r2.active =>
        /\ IsPrefix(r2.returned, Drop(appended, r2.base))
        /\ (last.op = "poll2" => r2.returned = Drop(appended, r2.base))
        /\ (r2.offset = offset
                => r2.base + Len(r2.returned) = rbase + Len(returned))

\* C8 witness: R had returned a record, and the new reader returned the next
C8_Witness ==
    /\ r2.active
    /\ r2.base >= 1
    /\ last.op = "poll2"
    /\ Len(r2.returned) >= 1
    /\ r2.offset > offset

\* C9: with one saver, at every step of save_state and after a crash at any
\* step, the target path shows the content it had before the call (or no file)
\* or the complete new value; once the call has returned, the new value.
C9_TargetOldOrNew ==
    LET me == sv[1]
        seen == View(dir, inode, me.path)
    IN  /\ me.pc # "idle" => (seen = me.pre \/ seen = Complete(me.value))
        /\ me.pc = "done" => seen = Complete(me.value)
        /\ me.pc # "failed"

\* C9 witness: the temp file is half written, or the saver died, while the
\* target holds another value
C9_Witness ==
    /\ sv[1].pc \in {"write", "crashed"}
    /\ sv[1].pos = 1
    /\ sv[1].pre.present
    /\ sv[1].pre # Complete(sv[1].value)
    /\ dir[tmp_path(sv[1].path)] # 0

\* C10: when two save_state calls on one target run concurrently to
\* completion, a reader of the target never sees torn content (it sees no
\* file or the complete value of some save), both calls succeed, and the
\* target ends up holding the complete value of one of the two.
C10_LastRenameWins ==
    \A path \in TargetPaths :
        LET seen == View(dir, inode, path)
        IN  /\ seen.present => \E v \in StateValues : seen = Complete(v)
            /\ \A s \in Savers : sv[s].pc # "failed"
            /\ (\A s \in Savers : sv[s].pc = "done" /\ sv[s].path = path)
                    => \E s \in Savers : seen = Complete(sv[s].value)

\* C11: a save_state call that fails at the temp write or at the rename has
\* not changed what is visible at its target path: no step of the failed
\* call removed, truncated or modified the target.
C11_FailedSaveLeavesTarget ==
    \A s \in Savers : sv[s].pc = "failed" => ~sv[s].hit

\* C13: when a save_state call succeeds, its target file exists and the
\* sibling temp file of that target is no longer in the directory.
C13_NoTempAfterSave ==
    [][\A s \in Savers :
            (sv[s].pc = "rename" /\ sv'[s].pc = "done") =>
                /\ View(dir', inode', sv[s].path).present
                /\ dir'[tmp_path(sv[s].path)] = 0]_vars

\* C13 witness: a save that replaced an earlier value has succeeded
C13_Witness ==
    \E s \in Savers :
        /\ sv[s].pc = "done"
        /\ sv[s].pre.present
        /\ View(dir, inode, sv[s].path) = Complete(sv[s].value)
        /\ sv[s].pre # Complete(sv[s].value)

\* a JSON number between optional whitespace, told from the bytes alone
IsJsonNumber(b) ==
    \E i \in 1..Len(b) : \E j \in i..Len(b) :
        /\ \A k \in 1..(i - 1) : b[k] \in {"sp", "nl"}
        /\ \A k \in (j + 1)..Len(b) : b[k] \in {"sp", "nl"}
        /\ \A k \in i..j : b[k] \in {"0", "1", "2", "3", "4", "5", "6", "7", "8", "9"}
        /\ (j > i => b[i] # "0")

\* C12: load_state returns the default without error when the file is
\* absent, returns v when the file holds what save_state(p, v) wrote, and
\* fails, never answering the default, when the file is present but cannot
\* be decoded.
C12_LoadState ==
    loaded.op = "load" =>
        /\ ~loaded.seen.present => (loaded.ok /\ loaded.value = 0)
        /\ \A v \in StateValues :
                loaded.seen = Complete(v) => (loaded.ok /\ loaded.value = v)
        /\ (loaded.seen.present /\ ~IsJsonNumber(loaded.seen.bytes))
                => ~loaded.ok

\* C12 witness: load_state has read the value a successful save_state wrote
\* over an earlier, different value
C12_Witness ==
    /\ loaded.op = "load"
    /\ sv[1].pc = "done"
    /\ sv[1].pre.present
    /\ sv[1].pre # Complete(sv[1].value)
    /\ loaded.seen = Complete(sv[1].value)
    /\ loaded.ok
    /\ loaded.value = sv[1].value

\* C14: a successful append leaves every byte the file held in place and
\* adds the record's one-line JSON text and exactly one newline after them
\* (to an empty file when there was none).
C14_AppendOnlyAdds ==
    [][(last'.op = "append" /\ ~last'.err /\ appended' # appended) =>
            /\ fileExists'
            /\ content' = content
                            \o to_string(appended'[Len(appended')])
                            \o << "nl" >>]_vars

\* C14 witness: two records appended, in order, after bytes another process
\* wrote
C14_Witness ==
    /\ last.op = "append"
    /\ ~last.err
    /\ appended = << 1, 11 >>
    /\ content = << "x", "1", "nl", "1", "1", "nl" >>

\* C15: a call given a value that cannot be encoded leaves the files as they
\* were: append creates no record file and adds no bytes, save_state writes
\* neither the temp file nor the target.
C15_EncodeFailureLeavesFiles ==
    [][/\ (last'.op = "append" /\ last'.err) =>
            (fileExists' = fileExists /\ content' = content)
       /\ \A s \in Savers :
            (sv[s].pc = "serialize" /\ sv'[s].pc = "failed") =>
                /\ View(dir', inode', tmp_path(sv[s].path)) = sv[s].preTmp
                /\ View(dir', inode', sv[s].path) = sv[s].pre]_vars

\* C18: for a reader started at offset 0 and only polled while the file
\* grows, a poll that moves the offset past a complete line holding a record
\* succeeds and returns that record; a poll that fails has not moved the
\* offset past a record the caller did not receive.
C18_FailedPollLosesNothing ==
    [][(Poll /\ positioned = "new" /\ truncations = 0) =>
        \A p \in ReadStarts(content, offset) :
            (/\ IsBoundary(content, p)
             /\ RecordLineAt(content, p)
             /\ LineEnd(content, p) <= offset')
                => /\ ~last'.err
                   /\ \E i \in 1..Len(last'.records) :
                        last'.records[i] = from_str(Trim(read_line(content, p)))]_vars

\* C19: save_state calls on two different targets of one directory do not
\* interfere: once both calls have returned, both have succeeded and each
\* target holds exactly the complete value of its own save.
C19_SiblingSavesIndependent ==
    (/\ \A s \in Savers : sv[s].pc \in {"done", "failed"}
     /\ sv[1].path # sv[2].path)
        => \A s \in Savers :
            /\ sv[s].pc = "done"
            /\ View(dir, inode, sv[s].path) = Complete(sv[s].value)

\* ---------------------------------------------------------------- shell text properties
\* the words a POSIX shell reads from a command line: inside single quotes
\* every character is literal up to the next single quote; outside them a
\* backslash makes the next character literal, a blank ends the word and
\* "$" starts an expansion
RECURSIVE ShWords(_, _, _, _, _, _)
ShWords(s, quoted, cur, inword, words, expands) ==
    IF s = <<>>
    THEN [ok |-> ~quoted,
          words |-> IF inword THEN Append(words, cur) ELSE words,
          expands |-> expands]
    ELSE LET c == Head(s)
             r == Tail(s)
         IN  IF quoted
             THEN IF c = "'"
                  THEN ShWords(r, FALSE, cur, TRUE, words, expands)
                  ELSE ShWords(r, TRUE, Append(cur, c), TRUE, words, expands)
             ELSE IF c = "'"
             THEN ShWords(r, TRUE, cur, TRUE, words, expands)
             ELSE IF c = "\\"
             THEN IF r = <<>>
                  THEN [ok |-> FALSE, words |-> words, expands |-> expands]
                  ELSE ShWords(Tail(r), FALSE, Append(cur, Head(r)), TRUE,
                               words, expands)
             ELSE IF c = "sp"
             THEN ShWords(r, FALSE, <<>>, FALSE,
                          IF inword THEN Append(words, cur) ELSE words, expands)
             ELSE ShWords(r, FALSE, Append(cur, c), TRUE, words,
                          expands \/ c = "$")

ShParse(s) == ShWords(s, FALSE, <<>>, FALSE, <<>>, FALSE)

CountOf(s, c) == Cardinality({ i \in 1..Len(s) : s[i] = c })

\* C16: shell_quote(s) is s between single quotes with four characters for
\* every single quote of s, and the shell reads it back as the one word s,
\* with nothing expanded.
C16_ShellQuoteRoundTrip ==
    shOut.op = "quote" =>
        /\ Len(shOut.out) = Len(shIn) + 2 + 3 * CountOf(shIn, "'")
        /\ Head(shOut.out) = "'"
        /\ shOut.out[Len(shOut.out)] = "'"
        /\ ShParse(shOut.out) =
                [ok |-> TRUE, words |-> << shIn >>, expands |-> FALSE]

\* C16 witness: a quoted string that holds a single quote, a blank and a "$"
C16_Witness ==
    /\ shOut.op = "quote"
    /\ Len(shIn) = 3
    /\ CountOf(shIn, "'") = 1
    /\ CountOf(shIn, "sp") = 1
    /\ CountOf(shIn, "$") = 1

Min(a, b) == IF a <= b THEN a ELSE b

IsAsciiAlphanumeric(c) == c \in {"A", "a", "1"}

IsUnicodeAlphanumeric(c) == c \in {"A", "a", "1", "eacute", "Eacute"}

\* the reference: lowercase, a hyphen for every character Keep rejects, the
\* part from the first to the last character that is no hyphen, and of that
\* at most the first 40 characters
RefSanitize(s, Keep(_)) ==
    LET lower(c) == IF c = "A" THEN "a" ELSE IF c = "Eacute" THEN "eacute" ELSE c
        m == [i \in 1..Len(s) |-> IF Keep(s[i]) THEN lower(s[i]) ELSE "-"]
        kept == { i \in 1..Len(s) : m[i] # "-" }
    IN  IF kept = {}
        THEN <<>>
        ELSE LET first == CHOOSE i \in kept : \A j \in kept : i <= j
                 final == CHOOSE i \in kept : \A j \in kept : j <= i
             IN  [i \in 1..Min(final - first + 1, 40) |-> m[first + i - 1]]

\* C17: sanitize(s) is the reference with "not an ASCII letter or digit"
\* replaced by a hyphen: at most 40 characters, all of them ASCII lowercase
\* letters, ASCII digits or hyphens.
C17_SanitizeAsciiReference ==
    shOut.op = "sanitize" =>
        /\ shOut.out = RefSanitize(shIn, IsAsciiAlphanumeric)
        /\ Len(shOut.out) <= 40
        /\ \A i \in 1..Len(shOut.out) : shOut.out[i] \in {"a", "1", "-"}

\* C17 as amended: sanitize(s) is the reference with "not alphanumeric" in
\* the Unicode sense (letters and digits outside ASCII are kept): at most 40
\* characters, all of them lowercased alphanumeric characters or hyphens.
C17_SanitizeUnicodeReference ==
    shOut.op = "sanitize" =>
        /\ shOut.out = RefSanitize(shIn, IsUnicodeAlphanumeric)
        /\ Len(shOut.out) <= 40
        /\ \A i \in 1..Len(shOut.out) :
                shOut.out[i] \in {"a", "1", "-", "eacute"}

\* C17 witness: a string longer than 40 characters that begins with an
\* upper-case letter outside ASCII, sanitized
C17_Witness ==
    /\ shOut.op = "sanitize"
    /\ Len(shIn) > 40
    /\ shIn[1] = "Eacute"
    /\ Len(shOut.out) = 40
    /\ shOut.out[1] = "eacute"

\* C20: the output of sanitize neither begins nor ends with a hyphen, also
\* when the input is cut at 40 characters, and sanitize applied to its own
\* output returns it unchanged.
C20_SanitizeIdempotent ==
    /\ shOut.op \in {"sanitize", "resanitize"}
        => \/ shOut.out = <<>>
           \/ (Head(shOut.out) # "-" /\ shOut.out[Len(shOut.out)] # "-")
    /\ shOut.op = "resanitize" => shOut.out = shIn

====
